---- MODULE Spec2Model ----
(***************************************************************************)
(* bandcamp-dl: the download-and-tag pipeline (BandcampDownloader), the     *)
(* metadata reconciler (Bandcamp.parse) and the driver loop (main).         *)
(*                                                                          *)
(* The specifications share the variables below:                            *)
(*   Spec      - BandcampDownloader.download_album, one album               *)
(*   SpecStart - BandcampDownloader.start: the confirmation gate, then      *)
(*               download_album                                             *)
(*   SpecMerge - BandcampJSON.generate and the merge loop of Bandcamp.parse *)
(*   SpecParse - Bandcamp.parse / parse_track on bounded page inputs        *)
(*   SpecMain  - main's parse loop and download loop over several URLs      *)
(***************************************************************************)
EXTENDS Integers, Sequences, FiniteSets, TLC

VARIABLES
    \* ---- download_album ----
    cfg,          \* self.config / arguments: overwrite, embed_art, debug for download_album;
                  \* full_album, no_confirm for main
    ntracks,      \* len(album.tracks)
    art,          \* album.art is not None
    tpl,          \* self.config.template, by the directory layout it yields
    tmp,          \* file system: the "<path>.mp3.tmp" files
    fin,          \* file system: the "<path>.mp3" files
    cover,        \* file system: "<dir>/cover.jpg"
    marker,       \* file system: "<base_dir>/<VERSION>.not.finished" exists
    album_art,    \* self.album_art: 0 while the attribute is not set, else the directory
    pc,           \* position inside download_album
    idx,          \* track_index + 1
    attempts,     \* local variable attempts
    skip,         \* local variable skip
    file_length,  \* local variable file_length while a stream is pending (else 0: line 193
                  \* assigns it again before any use)
    hist,         \* per track (observation only): GETs, streams, mismatching streams,
                  \* write_id3_tags calls, the files found when the track began, how it ended
    artlog,       \* per directory: GETs issued for album.art; and whether one raised
    result,       \* "none" while running, "True"/"False" returned, "raised" if an exception
                  \* escaped, "cancelled" when start returned without calling download_album
    \* ---- start ----
    start_album,  \* the Album handed to start, by its all_tracks_have_url field
    answer,       \* local variable choice of start: "unasked" until input() is read
    \* ---- BandcampJSON.generate and the merge loop ----
    doc,          \* the page document: its pagedata blob, ld+json script, data-tralbum scripts
    bandcamp_json,\* the entries of bandcamp_json not merged yet
    page_json,    \* the mapping merged so far
    jpc,          \* "idle", "ready", "merge", "done", "raised"
    \* ---- Bandcamp.parse ----
    page,         \* the merged page_json handed to the reconciler
    parsed,       \* the Album returned by parse
    ppc,          \* position of the parse call: "idle", "ready", "done"
    \* ---- main ----
    urls,         \* what is behind each URL of the run, in order
    mpc,          \* position inside main: "parse", "download", "done", or how it died
    ui,           \* index of the URL (parse loop) or of the album (download loop)
    album_list,   \* album_list, as the indices of the URLs whose Album was appended
    seen,         \* indices of the URLs for which bandcamp.parse returned
    started       \* indices of the URLs whose album reached download_album

dlvars == <<cfg, ntracks, art, tpl, tmp, fin, cover, marker, album_art, pc, idx,
            attempts, skip, file_length, hist, artlog, result>>
parsevars == <<page, parsed, ppc>>
mainvars == <<urls, mpc, ui, album_list, seen, started>>
startvars == <<start_album, answer>>
mergevars == <<doc, bandcamp_json, page_json, jpc>>
vars == <<dlvars, parsevars, mainvars, startvars, mergevars>>

(***************************************************************************)
(* Bounds                                                                   *)
(***************************************************************************)
MaxTracks == 2      \* tracks per album in the download model
MaxSize == 1        \* byte counts declared / delivered range over 0..MaxSize
MaxCount == 4       \* observation counters saturate here
MaxRaw == 2         \* trackinfo entries per page in the parse model
MaxUrls == 3        \* URLs per run in the model of main
MaxScripts == 1     \* script elements carrying data-tralbum on a page

Sizes == 0..MaxSize
Cap(n) == IF n < MaxCount THEN n + 1 ELSE n

(***************************************************************************)
(* File system contents                                                     *)
(***************************************************************************)
\* A file is recorded by where it came from (left by an earlier run, or streamed
\* by this one), whether it holds exactly the declared content-length bytes,
\* whether line 224 compared its size equal, and how far tagging got.
NoFile == [src |-> "none", complete |-> FALSE, checked |-> FALSE, tagged |-> "no"]
OldTmp == [src |-> "oldtmp", complete |-> FALSE, checked |-> FALSE, tagged |-> "no"]
OldFinal == [src |-> "oldfinal", complete |-> TRUE, checked |-> FALSE, tagged |-> "full"]
Streamed(n, len) == [src |-> "run", complete |-> (n = len), checked |-> FALSE, tagged |-> "no"]
\* a stream cut short by an exception
Partial == [src |-> "run", complete |-> FALSE, checked |-> FALSE, tagged |-> "no"]

Templates == {"album/track", "track/title", "album/album"}

\* template_to_path: the path of track t under the configured template.
\* "album/track": one directory, one file per track (the default layout);
\* "track/title": a directory per track; "album/album": no per-track token,
\* every track maps to the same path.
template_to_path(t) ==
    CASE tpl = "album/track" -> <<1, t>>
      [] tpl = "track/title" -> <<t, 1>>
      [] OTHER -> <<1, 1>>

Tracks == 1..ntracks
Paths == {template_to_path(t) : t \in Tracks}
Dirs == {p[1] : p \in Paths}
dirname(p) == p[1]

NoHist == [reqs |-> 0, streams |-> 0, mism |-> 0, tags |-> 0,
           tmpAtStart |-> FALSE, finalAtStart |-> NoFile, end |-> "none"]

(***************************************************************************)
(* Init of download_album: every configuration, every album shape and every *)
(* initial content of the album directories.                                *)
(***************************************************************************)
ParseIdle == page = <<>> /\ parsed = <<>> /\ ppc = "idle"
MainIdle == urls = <<>> /\ mpc = "idle" /\ ui = 0 /\ album_list = <<>>
            /\ seen = {} /\ started = <<>>
StartIdle == start_album = [all_tracks_have_url |-> TRUE] /\ answer = "unasked"
MergeIdle == doc = <<>> /\ bandcamp_json = <<>> /\ page_json = <<>> /\ jpc = "idle"

Init ==
    /\ cfg \in [overwrite : BOOLEAN, embed_art : BOOLEAN, debug : BOOLEAN]
    /\ ntracks \in 1..MaxTracks
    /\ art \in BOOLEAN
    /\ tpl \in Templates
    /\ tmp \in [Paths -> {NoFile, OldTmp}]
    /\ fin \in [Paths -> {NoFile, OldFinal}]
    /\ cover \in [Dirs -> {"none", "old"}]
    /\ marker \in BOOLEAN
    /\ album_art = 0
    /\ pc = "begin"
    /\ idx = 1
    /\ attempts = 0
    /\ skip = FALSE
    /\ file_length = 0
    /\ hist = [t \in Tracks |-> NoHist]
    /\ artlog = [d \in Dirs |-> [gets |-> 0, raised |-> FALSE]]
    /\ result = "none"
    /\ ParseIdle
    /\ MainIdle
    /\ StartIdle
    /\ MergeIdle

(***************************************************************************)
(* BandcampDownloader.start: the confirmation gate                          *)
(***************************************************************************)
\* line 42: not album.all_tracks_have_url and not self.config.no_confirm
Prompted(album) == ~album.all_tracks_have_url /\ ~cfg.no_confirm

\* line 43: input(...).lower(), on the answers the model types
Inputs == {"yes", "y", "YES", "Y", "no", ""}
Lower(typed) ==
    CASE typed = "YES" -> "yes"
      [] typed = "Y" -> "y"
      [] OTHER -> typed

\* lines 42-51: whether download_album is called
StartDownloads_NoGate(album, choice) == TRUE
StartDownloads(album, choice) ==
    IF Prompted(album)
    THEN choice \in {"yes", "y"}
    ELSE TRUE

(***************************************************************************)
(* write_id3_tags(filepath, meta)                                           *)
(***************************************************************************)
\* write_id3_tags raises: mp3.MP3(filepath) on a missing file (line 264), or
\* open(self.album_art) when embed_art is set and the attribute was never
\* assigned or its file is gone (line 278).
TagRaises(p) ==
    \/ tmp[p] = NoFile
    \/ cfg.embed_art /\ (album_art = 0 \/ cover[album_art] = "none")

\* The file system after write_id3_tags raised: the first audio.save (line 268)
\* has already rewritten the temporary file unless the file was missing.
TagFailTmp(p) ==
    IF tmp[p] = NoFile THEN tmp ELSE [tmp EXCEPT ![p].tagged = "partial"]

\* The tagged content that the rename moves to the final name (lines 264-300).
TaggedFile(p) == [tmp[p] EXCEPT !.tagged = "full"]

\* os.rename(filepath, filepath[:-4]), with the remove-and-retry of lines 305-309:
\* the final name holds the tagged file whether or not it existed before.
RenameToFinal(p) ==
    /\ fin' = [fin EXCEPT ![p] = TaggedFile(p)]
    /\ tmp' = [tmp EXCEPT ![p] = NoFile]

(***************************************************************************)
(* download_album                                                           *)
(***************************************************************************)
MaxAttempts == 3

\* line 177: album.art and not os.path.exists(dirname + "/cover.jpg")
NeedArt(d) == art /\ cover[d] = "none"

\* lines 178-185: open(cover.jpg, "wb") creates the file, then the GET either
\* returns (content written, self.album_art assigned) or raises (caught).
FetchArt(d, ok) ==
    /\ cover' = [cover EXCEPT ![d] = IF ok THEN "fetched" ELSE "empty"]
    /\ album_art' = IF ok THEN d ELSE album_art
    /\ artlog' = [artlog EXCEPT ![d] = [gets |-> Cap(@.gets), raised |-> @.raised \/ ~ok]]

\* line 196: the temporary file exists
TmpExists_Never(p) == FALSE
TmpExists(p) == tmp[p] # NoFile

\* line 202: os.path.exists(filepath[:-4]) and self.config.overwrite is not True
SkipExisting_Inverted(p) == fin[p] # NoFile /\ cfg.overwrite = TRUE
SkipExisting(p) == fin[p] # NoFile /\ cfg.overwrite # TRUE

\* line 224: local_size != file_length and attempts != 3
ShouldRetry(local_size, len, att) == local_size # len /\ att # MaxAttempts

\* line 228: attempts == 3
GiveUp(att) == att = MaxAttempts

\* line 215: done = int(50 * dl / file_length) divides by zero when a chunk
\* arrives for a response that declared no length, unless config.debug is set.
ProgressRaises(len, delivered) == ~cfg.debug /\ len = 0 /\ delivered > 0

\* the for loop moves to the next track, or falls through to line 242
Advance ==
    IF idx < ntracks THEN idx' = idx + 1 /\ pc' = "begin"
                     ELSE idx' = idx /\ pc' = "finish"

\* return False from the except clause of lines 235-238
ReturnFalse_Swallowed == pc' = "after" /\ result' = result /\ idx' = idx
ReturnFalse == pc' = "done" /\ result' = "False" /\ idx' = idx

\* lines 136-188: path computation, directory, album art, attempts = 0, skip = False
BeginTrack ==
    /\ pc = "begin"
    /\ LET p == template_to_path(idx)
           d == dirname(p)
       IN /\ IF NeedArt(d)
                THEN \E ok \in BOOLEAN : FetchArt(d, ok)
                ELSE UNCHANGED <<cover, album_art, artlog>>
          /\ hist' = [hist EXCEPT ![idx].tmpAtStart = TmpExists(p),
                                  ![idx].finalAtStart = fin[p]]
    /\ attempts' = 0
    /\ skip' = FALSE
    /\ pc' = "request"
    /\ UNCHANGED <<cfg, ntracks, art, tpl, tmp, fin, marker, idx, file_length, result>>
    /\ UNCHANGED <<parsevars, mainvars, startvars, mergevars>>

\* lines 191-205: one pass of the while loop up to the open() of line 206.
\* raises: session.get raises; else resp is the declared content-length.
Request ==
    /\ pc = "request"
    /\ \E raises \in BOOLEAN, resp \in Sizes :
        LET p == template_to_path(idx)
            h == [hist[idx] EXCEPT !.reqs = Cap(@)]
        IN IF raises
           THEN /\ ReturnFalse
                /\ hist' = [hist EXCEPT ![idx] = [h EXCEPT !.end = "failed"]]
                /\ UNCHANGED <<tmp, fin, skip>>
                /\ file_length' = 0
           ELSE /\ file_length' = IF TmpExists(p) \/ SkipExisting(p) THEN 0 ELSE resp
                /\ IF TmpExists(p)
                   THEN IF TagRaises(p)
                        THEN /\ tmp' = TagFailTmp(p)
                             /\ ReturnFalse
                             /\ hist' = [hist EXCEPT ![idx] =
                                           [h EXCEPT !.tags = Cap(@), !.end = "failed"]]
                             /\ UNCHANGED <<fin, skip>>
                        ELSE /\ RenameToFinal(p)
                             /\ skip' = TRUE
                             /\ pc' = "after"
                             /\ hist' = [hist EXCEPT ![idx] =
                                           [h EXCEPT !.tags = Cap(@), !.end = "tagged"]]
                             /\ UNCHANGED <<idx, result>>
                   ELSE IF SkipExisting(p)
                        THEN /\ skip' = TRUE
                             /\ pc' = "after"
                             /\ hist' = [hist EXCEPT ![idx] = [h EXCEPT !.end = "exists"]]
                             /\ UNCHANGED <<tmp, fin, idx, result>>
                        ELSE /\ pc' = "stream"
                             /\ hist' = [hist EXCEPT ![idx] = h]
                             /\ UNCHANGED <<tmp, fin, skip, idx, result>>
    /\ UNCHANGED <<cfg, ntracks, art, tpl, cover, marker, album_art, attempts, artlog>>
    /\ UNCHANGED <<parsevars, mainvars, startvars, mergevars>>

\* lines 206-238: open(filepath, "wb"), the chunk loop, the size comparison.
\* raises: the stream raises midway; else got is the number of bytes delivered.
Stream ==
    /\ pc = "stream"
    /\ \E raises \in BOOLEAN, got \in Sizes :
        LET p == template_to_path(idx)
            h == [hist[idx] EXCEPT !.streams = Cap(@)]
        IN IF raises
           THEN /\ tmp' = [tmp EXCEPT ![p] = Partial]
                /\ ReturnFalse
                /\ hist' = [hist EXCEPT ![idx] = [h EXCEPT !.end = "failed"]]
           ELSE IF ProgressRaises(file_length, got)
           THEN /\ tmp' = [tmp EXCEPT ![p] = Streamed(got, file_length)]
                /\ ReturnFalse
                /\ hist' = [hist EXCEPT ![idx] = [h EXCEPT !.end = "failed"]]
           ELSE IF ShouldRetry(got, file_length, attempts)
           THEN /\ tmp' = [tmp EXCEPT ![p] = Streamed(got, file_length)]
                /\ pc' = "request"
                /\ hist' = [hist EXCEPT ![idx] = [h EXCEPT !.mism = Cap(@)]]
                /\ UNCHANGED <<idx, result>>
           ELSE IF GiveUp(attempts)
           THEN /\ tmp' = [tmp EXCEPT ![p] = NoFile]
                /\ pc' = "after"
                /\ hist' = [hist EXCEPT ![idx] =
                              [h EXCEPT !.mism = IF got # file_length THEN Cap(@) ELSE @,
                                        !.end = "gaveup"]]
                /\ UNCHANGED <<idx, result>>
           ELSE /\ tmp' = [tmp EXCEPT ![p] = [Streamed(got, file_length) EXCEPT !.checked = TRUE]]
                /\ pc' = "after"
                /\ hist' = [hist EXCEPT ![idx] = h]
                /\ UNCHANGED <<idx, result>>
    /\ file_length' = 0
    /\ UNCHANGED <<cfg, ntracks, art, tpl, fin, cover, marker, album_art, attempts, skip,
                   artlog>>
    /\ UNCHANGED <<parsevars, mainvars, startvars, mergevars>>

\* lines 239-240 and the step of the for loop: tag the file unless skip is set.
AfterLoop ==
    /\ pc = "after"
    /\ LET p == template_to_path(idx)
       IN IF skip
          THEN /\ Advance
               /\ UNCHANGED <<tmp, fin, hist, result>>
          ELSE IF TagRaises(p)
          THEN /\ tmp' = TagFailTmp(p)
               /\ pc' = "done"
               /\ result' = "raised"
               /\ hist' = [hist EXCEPT ![idx].tags = Cap(@), ![idx].end = "raised"]
               /\ UNCHANGED <<fin, idx>>
          ELSE /\ RenameToFinal(p)
               /\ Advance
               /\ hist' = [hist EXCEPT ![idx].tags = Cap(@), ![idx].end = "tagged"]
               /\ UNCHANGED result
    /\ UNCHANGED <<cfg, ntracks, art, tpl, cover, marker, album_art, attempts, skip,
                   file_length, artlog>>
    /\ UNCHANGED <<parsevars, mainvars, startvars, mergevars>>

\* lines 242-249: remove the ".not.finished" marker, remove the cached cover when
\* it was embedded, return True.
Finish ==
    /\ pc = "finish"
    /\ marker' = FALSE
    /\ cover' = IF cfg.embed_art /\ album_art # 0
                THEN [cover EXCEPT ![album_art] = "none"]
                ELSE cover
    /\ pc' = "done"
    /\ result' = "True"
    /\ UNCHANGED <<cfg, ntracks, art, tpl, tmp, fin, album_art, idx, attempts, skip,
                   file_length, hist, artlog>>
    /\ UNCHANGED <<parsevars, mainvars, startvars, mergevars>>

Next == BeginTrack \/ Request \/ Stream \/ AfterLoop \/ Finish

Spec == Init /\ [][Next]_vars

(***************************************************************************)
(* start(album), lines 36-51: the gate, then download_album as above        *)
(***************************************************************************)
InitStart ==
    /\ cfg \in [overwrite : BOOLEAN, embed_art : BOOLEAN, debug : BOOLEAN,
                no_confirm : BOOLEAN]
    /\ start_album \in [all_tracks_have_url : BOOLEAN]
    /\ answer = "unasked"
    /\ ntracks \in 1..MaxTracks
    /\ art \in BOOLEAN
    /\ tpl \in Templates
    /\ tmp \in [Paths -> {NoFile, OldTmp}]
    /\ fin \in [Paths -> {NoFile, OldFinal}]
    /\ cover \in [Dirs -> {"none", "old"}]
    /\ marker \in BOOLEAN
    /\ album_art = 0
    /\ pc = "start"
    /\ idx = 1
    /\ attempts = 0
    /\ skip = FALSE
    /\ file_length = 0
    /\ hist = [t \in Tracks |-> NoHist]
    /\ artlog = [d \in Dirs |-> [gets |-> 0, raised |-> FALSE]]
    /\ result = "none"
    /\ ParseIdle
    /\ MainIdle
    /\ MergeIdle

\* lines 42-51: prompt when the gate applies, then call download_album or cancel
Start ==
    /\ pc = "start"
    /\ \E typed \in Inputs :
        LET choice == Lower(typed)
        IN /\ answer' = IF Prompted(start_album) THEN choice ELSE "unasked"
           /\ IF StartDownloads(start_album, choice)
              THEN pc' = "begin" /\ result' = result
              ELSE pc' = "done" /\ result' = "cancelled"
    /\ UNCHANGED <<cfg, ntracks, art, tpl, tmp, fin, cover, marker, album_art, idx,
                   attempts, skip, file_length, hist, artlog, start_album>>
    /\ UNCHANGED <<parsevars, mainvars, mergevars>>

NextStart == Start \/ BeginTrack \/ Request \/ Stream \/ AfterLoop \/ Finish

SpecStart == InitStart /\ [][NextStart]_vars

(***************************************************************************)
(* BandcampJSON.generate and the merge loop of Bandcamp.parse               *)
(*                                                                          *)
(* A fragment is a text: its syntax (strict JSON or a JavaScript object     *)
(* literal) and the top-level mapping it denotes.                           *)
(***************************************************************************)
Keys == {"url", "artist"}
Vals == {"a", "b", "c"}
Dicts == UNION {[K -> Vals] : K \in SUBSET Keys}
EmptyDict == [k \in {} |-> "a"]

\* the data-blob attribute holds strict JSON; a script holds either syntax
ScriptTexts == [syntax : {"json", "js"}, data : Dicts]
Docs(n) == [pagedata : [syntax : {"json"}, data : Dicts],
            ldjson : ScriptTexts,
            tralbum : [1..n -> ScriptTexts]]

\* bandcampjson.py 38-43: demjson3.decode, then demjson3.encode as strict JSON
js_to_json(js_data) == [syntax |-> "json", data |-> js_data.data]

\* bandcampjson.py 15-36: the pagedata blob as found, then the ld+json script
\* and the data-tralbum scripts in document order, each through js_to_json
generate(d) ==
    <<d.pagedata>> \o [i \in 1..(1 + Len(d.tralbum)) |->
                          js_to_json(IF i = 1 THEN d.ldjson ELSE d.tralbum[i - 1])]

\* json.loads accepts strict JSON only
LoadsRaises(entry) == entry.syntax # "json"

\* bandcamp.py 106: {**page_json, **json.loads(entry)}
MergeInto_KeepFirst(merged, entry) ==
    [k \in DOMAIN merged \cup DOMAIN entry.data |->
        IF k \in DOMAIN merged THEN merged[k] ELSE entry.data[k]]
MergeInto(merged, entry) ==
    [k \in DOMAIN merged \cup DOMAIN entry.data |->
        IF k \in DOMAIN entry.data THEN entry.data[k] ELSE merged[k]]

InitMerge ==
    /\ \E n \in 0..MaxScripts : doc \in Docs(n)
    /\ bandcamp_json = <<>>
    /\ page_json = <<>>
    /\ jpc = "ready"
    /\ cfg = [overwrite |-> FALSE, embed_art |-> FALSE, debug |-> FALSE]
    /\ ntracks = 0 /\ art = FALSE /\ tpl = "album/track"
    /\ tmp = <<>> /\ fin = <<>> /\ cover = <<>> /\ marker = FALSE
    /\ album_art = 0 /\ pc = "idle" /\ idx = 0 /\ attempts = 0 /\ skip = FALSE
    /\ file_length = 0 /\ hist = <<>> /\ artlog = <<>> /\ result = "none"
    /\ ParseIdle
    /\ MainIdle
    /\ StartIdle

\* bandcamp.py 103-104: bandcamp_json = BandcampJSON(soup).generate(); page_json = {}
Generate ==
    /\ jpc = "ready"
    /\ bandcamp_json' = generate(doc)
    /\ page_json' = EmptyDict
    /\ jpc' = "merge"
    /\ UNCHANGED <<doc, dlvars, parsevars, mainvars, startvars>>

\* bandcamp.py 105-107: one pass of the for loop, or its end
MergeEntry ==
    /\ jpc = "merge"
    /\ IF bandcamp_json = <<>>
       THEN jpc' = "done" /\ UNCHANGED <<bandcamp_json, page_json>>
       ELSE IF LoadsRaises(Head(bandcamp_json))
       THEN jpc' = "raised" /\ UNCHANGED <<bandcamp_json, page_json>>
       ELSE /\ page_json' = MergeInto(page_json, Head(bandcamp_json))
            /\ bandcamp_json' = Tail(bandcamp_json)
            /\ jpc' = jpc
    /\ UNCHANGED <<doc, dlvars, parsevars, mainvars, startvars>>

NextMerge == Generate \/ MergeEntry

SpecMerge == InitMerge /\ [][NextMerge]_vars

(***************************************************************************)
(* Bandcamp.parse and Bandcamp.parse_track                                  *)
(*                                                                          *)
(* Strings that the code inspects are sequences of tokens, so that the      *)
(* substring test and the concatenation of parse_track are computed.        *)
(* None is NoUrl for a URL, NoId for an identifier, NoneFile for a file map.*)
(***************************************************************************)
NoUrl == <<>>
NoId == 0
HttpsTokens == {"https:"}
Mp3Values == { <<"https:", "//t4.bcbits.com/stream/a">>,
               <<"http:", "//t4.bcbits.com/stream/a">>,
               <<"//t4.bcbits.com/stream/a">> }

\* Track.file: None, or a map from format names to URLs (keys; the value under "mp3-128")
NoneFile == [none |-> TRUE, keys |-> {}, mp3 |-> NoUrl]
FileMaps == {NoneFile,
             [none |-> FALSE, keys |-> {}, mp3 |-> NoUrl],
             [none |-> FALSE, keys |-> {"mp3-v0"}, mp3 |-> NoUrl]}
            \cup {[none |-> FALSE, keys |-> {"mp3-128"}, mp3 |-> v] : v \in Mp3Values}

\* "https" in s
ContainsHttps(s) == \E i \in 1..Len(s) : s[i] \in HttpsTokens

\* lines 243-247 of parse_track
DownloadUrl(file) ==
    IF ~file.none /\ file.keys # {} /\ "mp3-128" \in file.keys
    THEN IF ContainsHttps(file.mp3) THEN file.mp3 ELSE <<"http:">> \o file.mp3
    ELSE NoUrl

\* lines 231-253: the Track built from one trackinfo entry. artist_url is the
\* same for every track of a page, so full_track_url is identified by partial_url.
parse_track(raw) ==
    [track_num |-> raw.track_num,
     track_id |-> raw.track_id,
     partial_url |-> raw.title_link,
     file |-> raw.file,
     download_url |-> DownloadUrl(raw.file)]

full_track_url(t) == t.partial_url

\* An item of track.itemListElement enters the dict being built: every item
\* enters track_positions (lines 136-139); only an item that carries an
\* additionalProperty named track_id enters track_ids (lines 124-129).
ItemEnters(item, url, needId) == item.id = url /\ (needId => item.track_id # NoId)

\* url in the dict built by the loop
HasKey(items, url, needId) == \E i \in 1..Len(items) : ItemEnters(items[i], url, needId)

\* the item whose assignment to dict[url] came last
LastWith(items, url, needId) ==
    items[CHOOSE i \in 1..Len(items) :
            /\ ItemEnters(items[i], url, needId)
            /\ \A j \in (i + 1)..Len(items) : ~ItemEnters(items[j], url, needId)]

\* lines 122-129: track_ids.get(url)
TrackIdsGet(items, url) ==
    IF HasKey(items, url, TRUE) THEN LastWith(items, url, TRUE).track_id
    ELSE NoId

\* lines 131-132: duplicate track numbers
HasDuplicates(tracks) ==
    Len(tracks) # Cardinality({tracks[i].track_num : i \in 1..Len(tracks)})

\* lines 133-146: renumber every track from the position table, else by index
Renumber_ByIndex(tracks, items) ==
    [i \in 1..Len(tracks) |-> [tracks[i] EXCEPT !.track_num = i]]
Renumber(tracks, items) ==
    [i \in 1..Len(tracks) |->
        IF HasKey(items, full_track_url(tracks[i]), FALSE)
        THEN [tracks[i] EXCEPT !.track_num = LastWith(items, full_track_url(tracks[i]), FALSE).position]
        ELSE [tracks[i] EXCEPT !.track_num = i]]

\* first value of a property named n in a property list, NoId if none
FirstProp(props, n) ==
    IF \E i \in 1..Len(props) : props[i].name = n
    THEN props[CHOOSE i \in 1..Len(props) :
                 props[i].name = n /\ \A j \in 1..(i - 1) : props[j].name # n].value
    ELSE NoId

\* lines 175-184: scan albumRelease in order, stop at the first truthy album_id
RECURSIVE ScanReleases(_, _)
ScanReleases(releases, acc) ==
    IF releases = <<>> THEN acc
    ELSE LET r == Head(releases)
             a == IF \E i \in 1..Len(r) : r[i].name = "item_id"
                  THEN FirstProp(r, "item_id") ELSE acc
         IN IF a # NoId THEN a ELSE ScanReleases(Tail(releases), a)

\* lines 164-172: the track_id of a MusicRecording page
TrackIdFromMusicRecording(pg) ==
    IF pg.type = "MusicRecording" THEN FirstProp(pg.props, "track_id") ELSE NoId

\* lines 164-184
AlbumId_AnyType(pg) ==
    IF FirstProp(pg.props, "track_id") # NoId THEN FirstProp(pg.props, "track_id")
    ELSE ScanReleases(pg.releases, NoId)
AlbumId(pg) ==
    IF pg.type = "MusicRecording" THEN FirstProp(pg.props, "track_id")
    ELSE IF pg.type = "MusicAlbum" THEN ScanReleases(pg.releases, NoId)
    ELSE NoId

\* lines 186-190
ResolveTrackId_PerTrackFirst(t, pg) ==
    IF t.track_id # NoId THEN t.track_id
    ELSE IF TrackIdFromMusicRecording(pg) # NoId THEN TrackIdFromMusicRecording(pg)
    ELSE TrackIdsGet(pg.items, full_track_url(t))
ResolveTrackId(t, pg) ==
    IF TrackIdFromMusicRecording(pg) # NoId THEN TrackIdFromMusicRecording(pg)
    ELSE IF t.track_id = NoId THEN TrackIdsGet(pg.items, full_track_url(t))
    ELSE t.track_id

\* line 195: tracks = [t for t in tracks if t.file is not None]
KeepTrack(t) == t.file # NoneFile
RECURSIVE FilterTracks(_)
FilterTracks(tracks) ==
    IF tracks = <<>> THEN <<>>
    ELSE IF KeepTrack(Head(tracks)) THEN <<Head(tracks)>> \o FilterTracks(Tail(tracks))
    ELSE FilterTracks(Tail(tracks))

\* line 202: all(track.file is not None for track in tracks)
AllTracksHaveUrl(tracks) == \A i \in 1..Len(tracks) : tracks[i].file # NoneFile

\* lines 111-113: the tracks as discovered on the page
DiscoveredTracks(pg) == [i \in 1..Len(pg.trackinfo) |-> parse_track(pg.trackinfo[i])]

\* lines 131-146 and 186-190, before the filter of line 195
ReconciledTracks(pg) ==
    LET t0 == DiscoveredTracks(pg)
        t1 == IF HasDuplicates(t0) THEN Renumber(t0, pg.items) ELSE t0
    IN [i \in 1..Len(t1) |-> [t1[i] EXCEPT !.track_id = ResolveTrackId(t1[i], pg)]]

\* lines 195-208: the Album
ParseAlbum(pg) ==
    LET kept == FilterTracks(ReconciledTracks(pg))
    IN [tracks |-> kept,
        all_tracks_have_url |-> AllTracksHaveUrl(kept),
        album_id |-> AlbumId(pg)]

\* ---- bounded page inputs ----
RawTracks(i) == [track_num : 1..MaxRaw, track_id : {NoId, 5}, title_link : {i},
                 file : FileMaps]

\* the trackinfo lists of length n: entry i links to track page i
RECURSIVE TrackInfos(_)
TrackInfos(n) ==
    IF n = 0 THEN {<<>>}
    ELSE {Append(ti, r) : ti \in TrackInfos(n - 1), r \in RawTracks(n)}

\* track.itemListElement for a page of n tracks: absent, one item per track with
\* the positions reversed, or a single item for the first track only
ItemTables(n) ==
    { <<>>,
      [i \in 1..n |-> [id |-> i, position |-> n + 1 - i, track_id |-> 10 + i]],
      IF n = 0 THEN <<>> ELSE <<[id |-> 1, position |-> n, track_id |-> NoId]>> }

PageKinds ==
    { [type |-> "MusicRecording", props |-> <<[name |-> "track_id", value |-> 77]>>,
       releases |-> <<>>],
      [type |-> "MusicRecording", props |-> <<>>, releases |-> <<>>],
      [type |-> "MusicAlbum", props |-> <<>>,
       releases |-> << <<[name |-> "other", value |-> 1]>>,
                       <<[name |-> "item_id", value |-> 555],
                         [name |-> "item_id", value |-> 556]>> >>],
      [type |-> "MusicAlbum", props |-> <<>>, releases |-> <<>>],
      [type |-> "Other", props |-> <<[name |-> "track_id", value |-> 78]>>,
       releases |-> << <<[name |-> "item_id", value |-> 557]>> >>] }

Pages(n) ==
    {[trackinfo |-> ti, items |-> it, type |-> k.type, props |-> k.props,
      releases |-> k.releases] : ti \in TrackInfos(n), it \in ItemTables(n), k \in PageKinds}

\* the other machines at rest
DlIdle ==
    /\ cfg = [overwrite |-> FALSE, embed_art |-> FALSE, debug |-> FALSE]
    /\ ntracks = 0 /\ art = FALSE /\ tpl = "album/track"
    /\ tmp = <<>> /\ fin = <<>> /\ cover = <<>> /\ marker = FALSE
    /\ album_art = 0 /\ pc = "idle" /\ idx = 0 /\ attempts = 0 /\ skip = FALSE
    /\ file_length = 0 /\ hist = <<>> /\ artlog = <<>> /\ result = "none"

InitParse ==
    /\ \E n \in 0..MaxRaw : page \in Pages(n)
    /\ parsed = <<>>
    /\ ppc = "ready"
    /\ DlIdle
    /\ MainIdle
    /\ StartIdle
    /\ MergeIdle

\* Bandcamp.parse on the merged page_json, lines 110-213
Parse ==
    /\ ppc = "ready"
    /\ parsed' = ParseAlbum(page)
    /\ ppc' = "done"
    /\ UNCHANGED <<page, dlvars, mainvars, startvars, mergevars>>

NextParse == Parse

SpecParse == InitParse /\ [][NextParse]_vars

(***************************************************************************)
(* main: the parse loop (lines 193-212) and the download loop (214-221)     *)
(***************************************************************************)
\* What a URL leads to:
\*  "other"       - neither "/album/" nor "/track/" in the URL (line 196)
\*  "noschema"    - session.get raises MissingSchema, parse returns None (bandcamp.py 90-91)
\*  "http_error"  - response.ok is false, sys.exit(2) (bandcamp.py 93-96)
\*  "no_pagedata" - no element with id "pagedata": find(...) is None and the
\*                  subscript raises TypeError (bandcampjson.py 23)
\*  "no_ldjson"   - no application/ld+json script: .string raises AttributeError
\*                  (bandcampjson.py 29)
\*  "bad_date"    - strptime raises ValueError (bandcamp.py 204)
\*  "ok"          - parse returns the Album of the page
PageErrors == {"no_pagedata", "no_ldjson", "bad_date"}
UrlKinds == {"other", "noschema", "http_error", "ok"} \cup PageErrors

SamplePage(files) ==
    [trackinfo |-> [i \in 1..Len(files) |->
                      [track_num |-> i, track_id |-> NoId, title_link |-> i, file |-> files[i]]],
     items |-> <<>>, type |-> "MusicAlbum", props |-> <<>>, releases |-> <<>>]
FullPage == SamplePage(<<[none |-> FALSE, keys |-> {"mp3-128"},
                          mp3 |-> <<"https:", "//t4.bcbits.com/stream/a">>]>>)
PartialPage == SamplePage(<<[none |-> FALSE, keys |-> {"mp3-128"},
                             mp3 |-> <<"https:", "//t4.bcbits.com/stream/a">>],
                           NoneFile>>)
UrlTargets == {[kind |-> k, page |-> FullPage] : k \in UrlKinds}
              \cup {[kind |-> "ok", page |-> PartialPage]}

InSeq(q, x) == \E i \in 1..Len(q) : q[i] = x

InitMain ==
    /\ urls \in UNION {[1..n -> UrlTargets] : n \in 1..MaxUrls}
    /\ mpc = "parse"
    /\ ui = 1
    /\ album_list = <<>>
    /\ seen = {}
    /\ started = <<>>
    /\ cfg \in [full_album : BOOLEAN, no_confirm : BOOLEAN]
    /\ ntracks = 0 /\ art = FALSE /\ tpl = "album/track"
    /\ tmp = <<>> /\ fin = <<>> /\ cover = <<>> /\ marker = FALSE
    /\ album_art = 0 /\ pc = "idle" /\ idx = 0 /\ attempts = 0 /\ skip = FALSE
    /\ file_length = 0 /\ hist = <<>> /\ artlog = <<>> /\ result = "none"
    /\ ParseIdle
    /\ StartIdle
    /\ MergeIdle

maindl == <<ntracks, art, tpl, tmp, fin, cover, marker, album_art, pc, idx,
            attempts, skip, file_length, hist, artlog, result>>

\* the parse loop moves to the next URL, or to the download loop of line 214
NextUrl ==
    IF ui < Len(urls) THEN ui' = ui + 1 /\ mpc' = "parse"
                      ELSE ui' = 1 /\ mpc' = "download"

\* bandcamp.py 93-96: sys.exit(2) inside bandcamp.parse ends the process
SysExit_Continue == NextUrl
SysExit == mpc' = "exit2" /\ ui' = ui

\* an exception raised inside bandcamp.parse: main has no handler for it
ParseRaises == mpc' = "crashed_parse" /\ ui' = ui

\* line 209: arguments.full_album and not album.all_tracks_have_url
SkipPartial(album) == cfg.full_album /\ ~album.all_tracks_have_url

\* one pass of the for loop of lines 195-212
ParseUrl ==
    /\ mpc = "parse"
    /\ LET u == urls[ui]
       IN CASE u.kind = "other" ->
                 NextUrl /\ UNCHANGED <<album_list, seen>>
            [] u.kind = "noschema" ->
                 NextUrl /\ seen' = seen \cup {ui} /\ UNCHANGED album_list
            [] u.kind = "http_error" ->
                 SysExit /\ UNCHANGED <<album_list, seen>>
            [] u.kind \in PageErrors ->
                 ParseRaises /\ UNCHANGED <<album_list, seen>>
            [] OTHER ->
                 /\ NextUrl
                 /\ seen' = seen \cup {ui}
                 /\ album_list' = IF SkipPartial(ParseAlbum(u.page))
                                  THEN album_list ELSE Append(album_list, ui)
    /\ UNCHANGED <<urls, started, cfg, maindl, parsevars, startvars, mergevars>>

\* one pass of the for loop of lines 216-221; outcome is what download_album
\* does: it returns (True or False) or lets an exception escape
DownloadAlbum ==
    /\ mpc = "download"
    /\ \E choice \in {"yes", "y", "no"}, outcome \in {"True", "False", "raised"} :
        IF ui > Len(album_list)
        THEN mpc' = "done" /\ UNCHANGED <<ui, started>>
        ELSE IF ~StartDownloads(ParseAlbum(urls[album_list[ui]].page), choice)
        THEN ui' = ui + 1 /\ UNCHANGED <<mpc, started>>
        ELSE /\ started' = Append(started, album_list[ui])
             /\ IF outcome = "raised"
                THEN mpc' = "crashed_download" /\ ui' = ui
                ELSE ui' = ui + 1 /\ UNCHANGED mpc
    /\ UNCHANGED <<urls, album_list, seen, cfg, maindl, parsevars, startvars, mergevars>>

NextMain == ParseUrl \/ DownloadAlbum

SpecMain == InitMain /\ [][NextMain]_vars

(***************************************************************************)
(* Properties of download_album (checked under Spec)                        *)
(***************************************************************************)
Processed(t) == hist[t].end # "none"
NeverMatched(t) == hist[t].streams >= 1 /\ hist[t].mism = hist[t].streams
TotalArtGets == LET RECURSIVE sum(_)
                    sum(D) == IF D = {} THEN 0
                              ELSE LET d == CHOOSE x \in D : TRUE
                                   IN artlog[d].gets + sum(D \ {d})
                IN sum(Dirs)

\* C1: a track whose streamed byte count never equals the declared
\* content-length is streamed exactly 3 times, then its temporary file is
\* removed, it is never tagged, and the loop goes on with the next track.
C1_RetryBound ==
    \A t \in Tracks :
        (NeverMatched(t) /\ hist[t].end \notin {"none", "failed"})
            => /\ hist[t].streams = MaxAttempts
               /\ hist[t].tags = 0
               /\ hist[t].end = "gaveup"
               /\ tmp[template_to_path(t)] = NoFile

\* C2 (as claimed): whenever the final file exists when the track begins and
\* overwrite is not True, the track is skipped: no tagging, the final file kept,
\* also when the track's .tmp file exists too.
C2_SkipExisting_AnyTmp ==
    \A t \in Tracks :
        (Processed(t) /\ hist[t].finalAtStart # NoFile /\ cfg.overwrite # TRUE)
            => /\ hist[t].tags = 0
               /\ fin[template_to_path(t)] = hist[t].finalAtStart

\* C2 (amended): whenever the final file exists when the track begins, its .tmp
\* file does not, and overwrite is not True, the track is skipped: nothing is
\* streamed or tagged for it and the final file is neither replaced nor removed.
C2_SkipExisting ==
    \A t \in Tracks :
        (Processed(t) /\ hist[t].finalAtStart # NoFile /\ ~hist[t].tmpAtStart
            /\ cfg.overwrite # TRUE)
            => /\ hist[t].tags = 0
               /\ hist[t].streams = 0
               /\ hist[t].end \in {"exists", "failed"}
               /\ fin[template_to_path(t)] = hist[t].finalAtStart

C2_Witness ==
    \E t \in Tracks :
        /\ hist[t].end = "exists"
        /\ hist[t].finalAtStart = OldFinal
        /\ ~hist[t].tmpAtStart
        /\ cfg.overwrite = FALSE
        /\ fin[template_to_path(t)] = OldFinal
        /\ pc = "done"

\* C3: a file streamed by this run stands at a final name only if its size
\* was compared equal to the declared content-length and it was fully tagged
\* before the rename.
C3_VerifiedBeforeFinal ==
    \A p \in Paths :
        fin[p].src = "run" => fin[p].checked /\ fin[p].tagged = "full"

\* C6: a run over a directory where every track's final file exists (and no
\* temporary file), with overwrite disabled, issues no GET for a track asset
\* and changes no track file.
C6_IdempotentRerun ==
    (/\ pc = "done"
     /\ result = "True"
     /\ cfg.overwrite = FALSE
     /\ \A t \in Tracks : hist[t].finalAtStart # NoFile /\ ~hist[t].tmpAtStart)
        => \A t \in Tracks : /\ hist[t].reqs = 0
                             /\ fin[template_to_path(t)] = hist[t].finalAtStart

C8_ArtFailureNonFatal ==
    (\E d \in Dirs : artlog[d].raised) => result # "raised"

\* C10: during one download_album call at most one GET for album.art is
\* issued, for any number of tracks and any path template.
C10_ArtFetchedOnce == TotalArtGets <= 1

\* C18: the while loop of one track makes at most two passes, whatever the
\* server declares and delivers: every pass begins with one GET, at most one
\* pass streams, and a pass that follows a size mismatch finds the temporary
\* file and leaves the loop.
C18_LoopBounded ==
    \A t \in Tracks :
        /\ hist[t].reqs <= 2
        /\ hist[t].streams <= 1
        /\ (hist[t].reqs = 2 /\ (idx # t \/ pc \notin {"request", "stream"}))
              => hist[t].end \in {"tagged", "failed"}

C18_Witness ==
    \E t \in Tracks :
        /\ hist[t].reqs = 2
        /\ hist[t].streams = 1
        /\ hist[t].mism = 1
        /\ hist[t].end = "tagged"
        /\ pc = "done"

(***************************************************************************)
(* Properties of start (checked under SpecStart)                            *)
(***************************************************************************)
TrackTouched(t) == hist[t] # NoHist

\* C11: start reaches download_album only when the album has a URL for every
\* track, no_confirm is set, or the answer to the prompt is "yes" or "y"; the
\* prompt is skipped exactly when all_tracks_have_url is true or no_confirm is
\* set; after any other answer start is over with nothing requested for any
\* track, and the cancelling step leaves every file as it was.
C11_ConfirmationGate ==
    /\ [](pc # "start" =>
            /\ (answer = "unasked")
                  <=> (start_album.all_tracks_have_url \/ cfg.no_confirm)
            /\ (pc # "done" \/ result # "cancelled" \/ \E t \in Tracks : TrackTouched(t))
                  => \/ start_album.all_tracks_have_url
                     \/ cfg.no_confirm
                     \/ answer \in {"yes", "y"}
            /\ answer \notin {"unasked", "yes", "y"}
                  => /\ pc = "done"
                     /\ result = "cancelled"
                     /\ \A t \in Tracks : ~TrackTouched(t)
                     /\ \A d \in Dirs : artlog[d].gets = 0)
    /\ [][(pc = "start" /\ result' = "cancelled")
            => UNCHANGED <<tmp, fin, cover, marker>>]_vars

C11_Witness ==
    /\ pc = "done"
    /\ result = "cancelled"
    /\ answer = "no"
    /\ ~start_album.all_tracks_have_url
    /\ ~cfg.no_confirm

(***************************************************************************)
(* Properties of the merge (checked under SpecMerge)                        *)
(***************************************************************************)
\* the mappings of the page's fragments in extraction order
Fragments ==
    <<doc.pagedata.data, doc.ldjson.data>>
        \o [i \in 1..Len(doc.tralbum) |-> doc.tralbum[i].data]

\* C15: the merged mapping holds, for every top-level key, the value of the
\* last fragment in extraction order (pagedata blob, ld+json script,
\* data-tralbum scripts in document order) that has the key: of three
\* fragments F3's value if F3 has the key, else F2's, else F1's; a key that
\* no fragment has is absent.
C15_MergeOrder ==
    jpc = "done" =>
        \A k \in Keys :
            LET F == Fragments
                has == {i \in 1..Len(F) : k \in DOMAIN F[i]}
            IN /\ (has = {}) <=> (k \notin DOMAIN page_json)
               /\ \A i \in has :
                     (\A j \in has : j <= i) => page_json[k] = F[i][k]

C15_Witness ==
    /\ jpc = "done"
    /\ Len(Fragments) = 3
    /\ \A i \in 1..3 : "url" \in DOMAIN Fragments[i]
    /\ Fragments[1]["url"] # Fragments[3]["url"]
    /\ Fragments[2]["url"] # Fragments[3]["url"]
    /\ page_json["url"] = Fragments[3]["url"]
    /\ "artist" \in DOMAIN Fragments[1] /\ "artist" \in DOMAIN Fragments[2]
    /\ "artist" \notin DOMAIN Fragments[3]
    /\ Fragments[1]["artist"] # Fragments[2]["artist"]
    /\ page_json["artist"] = Fragments[2]["artist"]
    /\ doc.tralbum[1].syntax = "js"

(***************************************************************************)
(* Properties of Bandcamp.parse (checked under SpecParse)                   *)
(***************************************************************************)
\* C4: all_tracks_have_url is computed over the tracks discovered before the
\* filter: it is true only if every discovered track had a download URL, and
\* false whenever the filter removed a track.
C4_AllTracksPreFilter ==
    ppc = "done" =>
        LET found == DiscoveredTracks(page)
        IN /\ (Len(parsed.tracks) < Len(found) => ~parsed.all_tracks_have_url)
           /\ (parsed.all_tracks_have_url
                 => \A i \in 1..Len(found) : found[i].download_url # NoUrl)

\* C5: every Track of the returned Album has a non-null download_url.
C5_TracksHaveDownloadUrl ==
    ppc = "done" =>
        \A i \in 1..Len(parsed.tracks) : parsed.tracks[i].download_url # NoUrl

\* the trackinfo entry a returned Track was built from
RawOf(t) == page.trackinfo[t.partial_url]
RawHasDuplicates ==
    \E i, j \in 1..Len(page.trackinfo) :
        i # j /\ page.trackinfo[i].track_num = page.trackinfo[j].track_num
ItemsFor(url) == {k \in 1..Len(page.items) : page.items[k].id = url}

\* C12: when two trackinfo entries share a track_num, every returned track
\* carries the position of the itemListElement item whose @id is its URL, or
\* its 1-based index in the trackinfo order when no item matches; when no two
\* entries share a track_num, every track keeps its raw track_num.
C12_DuplicateRepair ==
    ppc = "done" =>
        \A k \in 1..Len(parsed.tracks) :
            LET t == parsed.tracks[k]
            IN IF RawHasDuplicates
               THEN /\ \A m \in ItemsFor(t.partial_url) : t.track_num = page.items[m].position
                    /\ ItemsFor(t.partial_url) = {} => t.track_num = t.partial_url
               ELSE t.track_num = RawOf(t).track_num

C12_Witness ==
    /\ ppc = "done"
    /\ RawHasDuplicates
    /\ Len(parsed.tracks) = 2
    /\ ItemsFor(1) # {} /\ ItemsFor(2) = {}
    /\ parsed.tracks[1].track_num = page.items[1].position
    /\ parsed.tracks[1].track_num # RawOf(parsed.tracks[1]).track_num
    /\ parsed.tracks[2].track_num = 2

PageTrackId ==
    IF page.type = "MusicRecording" /\ \E i \in 1..Len(page.props) : page.props[i].name = "track_id"
    THEN page.props[CHOOSE i \in 1..Len(page.props) : page.props[i].name = "track_id"].value
    ELSE NoId
ItemsWithId(url) == {k \in ItemsFor(url) : page.items[k].track_id # NoId}

\* C13: a returned track's track_id is the page-level track_id of a
\* MusicRecording page when there is one; else the track_id of its trackinfo
\* entry when present; else the track_id of the itemListElement item whose
\* @id is its URL, and null when no such item carries one.
C13_TrackIdPriority ==
    ppc = "done" =>
        \A k \in 1..Len(parsed.tracks) :
            LET t == parsed.tracks[k]
            IN IF PageTrackId # NoId THEN t.track_id = PageTrackId
               ELSE IF RawOf(t).track_id # NoId THEN t.track_id = RawOf(t).track_id
               ELSE /\ \A m \in ItemsWithId(t.partial_url) : t.track_id = page.items[m].track_id
                    /\ ItemsWithId(t.partial_url) = {} => t.track_id = NoId

C13_Witness ==
    /\ ppc = "done"
    /\ PageTrackId # NoId
    /\ Len(parsed.tracks) = 2
    /\ RawOf(parsed.tracks[1]).track_id \notin {NoId, PageTrackId}
    /\ RawOf(parsed.tracks[2]).track_id = NoId
    /\ ItemsWithId(2) # {}
    /\ parsed.tracks[1].track_id = PageTrackId
    /\ parsed.tracks[2].track_id = PageTrackId

\* C14: along the tracks sequence of every returned Album the track_num
\* values are non-decreasing.
C14_TracksOrdered ==
    ppc = "done" =>
        \A k \in 1..(Len(parsed.tracks) - 1) :
            parsed.tracks[k].track_num <= parsed.tracks[k + 1].track_num

\* the additionalProperty entries of albumRelease, by (release, entry) index
ReleaseProps ==
    {rp \in (1..Len(page.releases)) \X (1..2) : rp[2] <= Len(page.releases[rp[1]])}
IsItemId(rp) == page.releases[rp[1]][rp[2]].name = "item_id"
Before(a, b) == a[1] < b[1] \/ (a[1] = b[1] /\ a[2] < b[2])

\* C16: album_id is the page-level track_id of a MusicRecording page (null
\* without one), the first item_id met scanning the albumRelease entries of a
\* MusicAlbum page in order (null without one), and null for any other type.
C16_AlbumIdByType ==
    ppc = "done" =>
        CASE page.type = "MusicRecording" ->
               /\ \A i \in 1..Len(page.props) :
                     (page.props[i].name = "track_id"
                        /\ \A j \in 1..(i - 1) : page.props[j].name # "track_id")
                       => parsed.album_id = page.props[i].value
               /\ (\A i \in 1..Len(page.props) : page.props[i].name # "track_id")
                       => parsed.album_id = NoId
          [] page.type = "MusicAlbum" ->
               /\ \A rp \in ReleaseProps :
                     (IsItemId(rp) /\ \A q \in ReleaseProps : Before(q, rp) => ~IsItemId(q))
                       => parsed.album_id = page.releases[rp[1]][rp[2]].value
               /\ (\A rp \in ReleaseProps : ~IsItemId(rp)) => parsed.album_id = NoId
          [] OTHER -> parsed.album_id = NoId

C16_Witness ==
    /\ ppc = "done"
    /\ page.type = "MusicAlbum"
    /\ Len(page.releases) = 2
    /\ ~IsItemId(<<1, 1>>)
    /\ IsItemId(<<2, 1>>) /\ IsItemId(<<2, 2>>)
    /\ page.releases[2][1].value # page.releases[2][2].value
    /\ parsed.album_id = page.releases[2][1].value

HasScheme(v) == Len(v) > 0 /\ v[1] \in {"http:", "https:"}

\* C17: for a track whose file map has the key mp3-128, download_url is the
\* value itself when the value starts with "http://" or "https://", and
\* "http:" followed by the value only when it has no scheme prefix.
C17_SchemePrefix ==
    ppc = "done" =>
        \A k \in 1..Len(parsed.tracks) :
            LET t == parsed.tracks[k]
            IN (~t.file.none /\ "mp3-128" \in t.file.keys)
                 => IF HasScheme(t.file.mp3) THEN t.download_url = t.file.mp3
                    ELSE t.download_url = <<"http:">> \o t.file.mp3

\* C20: when two trackinfo entries share a track_num, the returned tracks have
\* pairwise distinct track_num values, whatever the position table.
C20_RepairDistinct ==
    (ppc = "done" /\ RawHasDuplicates) =>
        \A k, m \in 1..Len(parsed.tracks) :
            k # m => parsed.tracks[k].track_num # parsed.tracks[m].track_num

(***************************************************************************)
(* Properties of main (checked under SpecMain)                              *)
(***************************************************************************)
MainEnded == mpc \in {"done", "exit2", "crashed_parse", "crashed_download"}

\* C9: a page-structure or release-date error of one URL is fatal for that page
\* only: once main has ended, every other URL that leads to a good page was
\* parsed and, when no confirmation is needed, its album reached download_album.
C9_PageErrorIsLocal ==
    (/\ MainEnded
     /\ mpc # "crashed_download"
     /\ \E i \in 1..Len(urls) : urls[i].kind \in PageErrors
     /\ \A i \in 1..Len(urls) : urls[i].kind # "http_error")
        => \A j \in 1..Len(urls) :
              urls[j].kind = "ok"
                => /\ j \in seen
                   /\ (cfg.no_confirm /\ ~cfg.full_album) => InSeq(started, j)

\* C19: an album reaches download_album only in the download loop, after
\* bandcamp.parse has returned for every album or track URL of the run; when
\* parse ends the process on a non-success HTTP status no album of the run is
\* downloaded, also not one whose page was parsed before.
C19_ParseAllBeforeDownload ==
    /\ started # <<>>
          => /\ mpc \in {"download", "done", "crashed_download"}
             /\ \A i \in 1..Len(urls) : urls[i].kind = "other" \/ i \in seen
    /\ mpc = "exit2" => started = <<>>
    /\ (\E i \in 1..Len(urls) : urls[i].kind = "http_error") => started = <<>>

C19_Witness ==
    /\ mpc = "exit2"
    /\ album_list # <<>>
    /\ urls[1].kind = "ok"
    /\ 1 \in seen
    /\ started = <<>>

====
